---- MODULE Spec2Model ----
(***************************************************************************)
(* Page store (storage_mgr.c) and buffer pool (buffer_mgr.c) of the        *)
(* assign3 storage stack, as a state machine.                              *)
(*                                                                         *)
(* A page's 4096 bytes are abstracted to a pair <<kind, n>>:               *)
(*   <<0, 0>>  the all-zero page (calloc / memset(.., 0, PAGE_SIZE)),      *)
(*   <<1, v>>  bytes written by a client through a pinned handle,          *)
(*   <<2, pn>> the text "Page-<pn>" that io_read_page prints into a        *)
(*             zeroed buffer when readBlock fails.                         *)
(* The page file is the sequence of its pages (page 0 first).              *)
(* A failing C library call (stat/fopen, fwrite, fread/fseek) is an input  *)
(* of the operation that makes the call: a fault <<kind, k>>.              *)
(***************************************************************************)
EXTENDS Integers, Sequences, FiniteSets, TLC

\* ------------------------------------------------------------------ bounds
MaxCapacity == 2      \* largest numPages handed to initBufferPool
MaxPage     == 2      \* page numbers handed to the pool are 0..MaxPage
MaxVal      == 1      \* distinct client payloads written into a buffer
MaxTick     == 3      \* successful pins per pool lifetime
MaxWrites   == 1      \* page writes per pool lifetime
MaxPolicyTick == 4    \* successful pins in a replacement policy run
MaxPin      == 1      \* outstanding pins a client takes on one page
MaxPoolPages == 2     \* frames of a table's pool
MaxSlots    == 2      \* a schema puts 1..MaxSlots records on a page
MaxRecVal   == 2      \* distinct record payloads
MaxHeapPage == 2      \* rids handed to the record calls are on pages 1..MaxHeapPage
MaxOps      == 5      \* record calls per table
MaxScans    == 2      \* scans a client starts on a table
MaxEnds     == 2      \* RC_RM_NO_MORE_TUPLES answers a client takes from one scan
MaxPins     == 3      \* a library call fails under one of the first MaxPins pinPage calls of a record call

\* --------------------------------------------------------------- constants
PAGE_SIZE == 4096

RC_OK                      == "RC_OK"
RC_ERROR                   == "RC_ERROR"
RC_FILE_NOT_FOUND          == "RC_FILE_NOT_FOUND"
RC_WRITE_FAILED            == "RC_WRITE_FAILED"
RC_READ_NON_EXISTING_PAGE  == "RC_READ_NON_EXISTING_PAGE"
RC_PINNED_PAGES_IN_BUFFER  == "RC_PINNED_PAGES_IN_BUFFER"
NOT_CALLED                 == "not_called"

RS_FIFO == "RS_FIFO"
RS_LRU  == "RS_LRU"

ZeroPage     == <<0, 0>>
UserPage(v)  == <<1, v>>
PageText(pn) == <<2, pn>>

PageNums == 0 .. MaxPage
Vals     == 1 .. MaxVal

\* faults of the C library under one io_read_page / io_write_page call
NoFault == <<"none", 0>>
Faults  == {NoFault, <<"open", 0>>, <<"xfer", 0>>}
             \cup {<<"extend", k>> : k \in 0 .. MaxPage - 1}

Min(a, b) == IF a < b THEN a ELSE b

\* ============================ storage_mgr.c =============================

file_size_bytes(d) == Len(d) * PAGE_SIZE

bytes_to_pages(sz) ==
    IF sz <= 0 THEN 1
    ELSE LET pages == (sz + PAGE_SIZE - 1) \div PAGE_SIZE
         IN  IF pages < 1 THEN 1 ELSE pages

validate_read_args(fh, pageNum) ==
    IF pageNum < 0 \/ pageNum >= fh.totalNumPages
    THEN RC_READ_NON_EXISTING_PAGE ELSE RC_OK

\* createPageFile: a file of exactly one zeroed page
createPageFile == << ZeroPage >>

openPageFile(d, f) ==
    IF f[1] = "open"
    THEN [rc |-> RC_FILE_NOT_FOUND, fh |-> [totalNumPages |-> 0, curPagePos |-> 0]]
    ELSE [rc |-> RC_OK,
          fh |-> [totalNumPages |-> bytes_to_pages(file_size_bytes(d)),
                  curPagePos    |-> 0]]

ZeroPages(n) == [i \in 1 .. n |-> ZeroPage]

readBlock(pageNum, fh, d, memPage, f) ==
    IF validate_read_args(fh, pageNum) # RC_OK
    THEN [rc |-> RC_READ_NON_EXISTING_PAGE, fh |-> fh, buf |-> memPage]
    ELSE IF f[1] = "xfer" \/ pageNum >= Len(d)
    THEN [rc |-> RC_READ_NON_EXISTING_PAGE, fh |-> fh, buf |-> memPage]
    ELSE [rc |-> RC_OK, fh |-> [fh EXCEPT !.curPagePos = pageNum],
          buf |-> d[pageNum + 1]]

writeBlock(pageNum, fh, d, memPage, f) ==
    IF pageNum < 0 \/ pageNum >= fh.totalNumPages
    THEN [rc |-> RC_READ_NON_EXISTING_PAGE, fh |-> fh, disk |-> d]
    ELSE IF f[1] = "xfer"
    THEN [rc |-> RC_WRITE_FAILED, fh |-> fh, disk |-> d]
    ELSE [rc |-> RC_OK, fh |-> [fh EXCEPT !.curPagePos = pageNum],
          disk |-> [d EXCEPT ![pageNum + 1] = memPage]]

appendEmptyBlock(fh, d, f) ==
    IF f[1] = "xfer"
    THEN [rc |-> RC_WRITE_FAILED, fh |-> fh, disk |-> d]
    ELSE [rc |-> RC_OK,
          fh |-> [totalNumPages |-> fh.totalNumPages + 1,
                  curPagePos    |-> fh.totalNumPages],
          disk |-> Append(d, ZeroPage)]

\* mutant: the handle counts the pages written before the failed fwrite
ensureCapacity_partial(numPages, fh, d, f) ==
    IF numPages <= 0 THEN [rc |-> RC_OK, fh |-> fh, disk |-> d]
    ELSE IF fh.totalNumPages >= numPages THEN [rc |-> RC_OK, fh |-> fh, disk |-> d]
    ELSE LET need == numPages - fh.totalNumPages
             done == Min(f[2], need - 1)
         IN  IF f[1] = "extend"
             THEN [rc |-> RC_WRITE_FAILED,
                   fh |-> [totalNumPages |-> fh.totalNumPages + done,
                           curPagePos    |-> fh.totalNumPages + done - 1],
                   disk |-> d \o ZeroPages(done)]
             ELSE [rc |-> RC_OK,
                   fh |-> [totalNumPages |-> numPages, curPagePos |-> numPages - 1],
                   disk |-> d \o ZeroPages(need)]

\* a fault <<"extend", k>> makes the (k+1)-th fwrite of the loop fail
ensureCapacity(numPages, fh, d, f) ==
    IF numPages <= 0 THEN [rc |-> RC_OK, fh |-> fh, disk |-> d]
    ELSE IF fh.totalNumPages >= numPages THEN [rc |-> RC_OK, fh |-> fh, disk |-> d]
    ELSE LET need == numPages - fh.totalNumPages
         IN  IF f[1] = "extend"
             THEN [rc |-> RC_WRITE_FAILED, fh |-> fh,
                   disk |-> d \o ZeroPages(Min(f[2], need - 1))]
             ELSE [rc |-> RC_OK,
                   fh |-> [totalNumPages |-> numPages, curPagePos |-> numPages - 1],
                   disk |-> d \o ZeroPages(need)]

\* ============================= buffer_mgr.c =============================

\* A Frame is [data, pageNum, isDirty, pinCount, refCount, lastTouch]; the
\* linked list head..tail is the sequence st.frames, NULL is index 0.
\* BpState is [frames, used, capacity, reads, writes, tick].

fr_new(data, pn) ==
    [data |-> data, pageNum |-> pn, isDirty |-> FALSE,
     pinCount |-> 1, refCount |-> 1, lastTouch |-> 0]

\* mutant: the loop never advances past the head of the list
fr_find_headonly(st, pn) ==
    IF Len(st.frames) > 0 /\ st.frames[1].pageNum = pn THEN 1 ELSE 0

fr_find(st, pn) ==
    IF \E i \in 1 .. Len(st.frames) : st.frames[i].pageNum = pn
    THEN CHOOSE i \in 1 .. Len(st.frames) :
            /\ st.frames[i].pageNum = pn
            /\ \A j \in 1 .. i - 1 : st.frames[j].pageNum # pn
    ELSE 0

fr_push_back(st, f) ==
    [st EXCEPT !.frames = Append(st.frames, f), !.used = st.used + 1]

\* result: rc, the file, the buffer, the increment of *reads, readBlock's rc
io_read_page(d, pn, buf, f) ==
    LET o == openPageFile(d, f) IN
    IF o.rc # RC_OK
    THEN [rc |-> o.rc, disk |-> d, buf |-> buf, inc |-> 0, rd |-> NOT_CALLED]
    ELSE LET e == ensureCapacity(pn + 1, o.fh, d, f) IN
         IF e.rc # RC_OK
         THEN [rc |-> e.rc, disk |-> e.disk, buf |-> buf, inc |-> 0, rd |-> NOT_CALLED]
         ELSE LET r == readBlock(pn, e.fh, e.disk, buf, f) IN
              [rc   |-> RC_OK,
               disk |-> e.disk,
               buf  |-> IF r.rc # RC_OK THEN PageText(pn) ELSE r.buf,
               inc  |-> 1,
               rd   |-> r.rc]

\* result: rc, the file, the increment of *writes
io_write_page(d, pn, buf, f) ==
    LET o == openPageFile(d, f) IN
    IF o.rc # RC_OK
    THEN [rc |-> o.rc, disk |-> d, inc |-> 0]
    ELSE LET e == ensureCapacity(pn + 1, o.fh, d, f) IN
         IF e.rc # RC_OK
         THEN [rc |-> e.rc, disk |-> e.disk, inc |-> 0]
         ELSE LET w == writeBlock(pn, e.fh, e.disk, buf, f) IN
              [rc |-> w.rc, disk |-> w.disk,
               inc |-> IF w.rc = RC_OK THEN 1 ELSE 0]

initBufferPool(numPages, strat) ==
    IF numPages <= 0
    THEN [rc |-> RC_ERROR]
    ELSE [rc |-> RC_OK,
          bm |-> [numPages |-> numPages, strategy |-> strat, mgmtData |-> TRUE],
          st |-> [frames |-> << >>, used |-> 0, capacity |-> numPages,
                  reads |-> 0, writes |-> 0, tick |-> 0]]

\* the loop of forceFlushPool from frame i on; fs[i] is the fault under the
\* write of frame i
RECURSIVE flushFrom(_, _, _, _)
flushFrom(st, d, fs, i) ==
    IF i > Len(st.frames) THEN [rc |-> RC_OK, st |-> st, disk |-> d]
    ELSE LET c == st.frames[i] IN
         IF c.isDirty /\ c.pinCount = 0
         THEN LET w == io_write_page(d, c.pageNum, c.data, fs[i])
                  s1 == [st EXCEPT !.writes = st.writes + w.inc]
              IN  IF w.rc # RC_OK
                  THEN [rc |-> w.rc, st |-> s1, disk |-> w.disk]
                  ELSE flushFrom([s1 EXCEPT !.frames[i].isDirty = FALSE],
                                 w.disk, fs, i + 1)
         ELSE flushFrom(st, d, fs, i + 1)

forceFlushPool(bm, st, d, fs) ==
    IF ~bm.mgmtData THEN [rc |-> RC_OK, st |-> st, disk |-> d]
    ELSE flushFrom(st, d, fs, 1)

\* mutant: the pool is torn down without looking at the pin counts
shutdownBufferPool_nocheck(bm, st, d, fs) ==
    LET fl == forceFlushPool(bm, st, d, fs) IN
    [rc |-> RC_OK, bm |-> [bm EXCEPT !.mgmtData = FALSE],
     st |-> [fl.st EXCEPT !.frames = << >>], disk |-> fl.disk]

shutdownBufferPool(bm, st, d, fs) ==
    IF ~bm.mgmtData THEN [rc |-> RC_OK, bm |-> bm, st |-> st, disk |-> d]
    ELSE LET fl == forceFlushPool(bm, st, d, fs) IN
         IF \E i \in 1 .. Len(fl.st.frames) : fl.st.frames[i].pinCount > 0
         THEN [rc |-> RC_PINNED_PAGES_IN_BUFFER, bm |-> bm,
               st |-> fl.st, disk |-> fl.disk]
         ELSE [rc |-> RC_OK, bm |-> [bm EXCEPT !.mgmtData = FALSE],
               st |-> [fl.st EXCEPT !.frames = << >>], disk |-> fl.disk]

markDirty(st, pn) ==
    LET f == fr_find(st, pn) IN
    IF f = 0 THEN [rc |-> RC_ERROR, st |-> st]
    ELSE [rc |-> RC_OK, st |-> [st EXCEPT !.frames[f].isDirty = TRUE]]

unpinPage(st, pn) ==
    LET f == fr_find(st, pn) IN
    IF f = 0 \/ st.frames[f].pinCount <= 0 THEN [rc |-> RC_ERROR, st |-> st]
    ELSE [rc |-> RC_OK,
          st |-> [st EXCEPT !.frames[f].pinCount = st.frames[f].pinCount - 1]]

forcePage(st, d, pn, fw) ==
    LET f == fr_find(st, pn) IN
    IF f = 0 THEN [rc |-> RC_ERROR, st |-> st, disk |-> d]
    ELSE LET w  == io_write_page(d, st.frames[f].pageNum, st.frames[f].data, fw)
             s1 == [st EXCEPT !.writes = st.writes + w.inc]
         IN  IF w.rc # RC_OK THEN [rc |-> w.rc, st |-> s1, disk |-> w.disk]
             ELSE [rc |-> RC_OK, st |-> [s1 EXCEPT !.frames[f].isDirty = FALSE],
                   disk |-> w.disk]

\* mutant: the head of the list is taken whatever its pin count
pickVictim_head(st) == IF Len(st.frames) > 0 THEN 1 ELSE 0

\* mutant: the loop stops at the tail instead of running off the list
pickVictim_tail(st) ==
    IF \E i \in 1 .. Len(st.frames) : st.frames[i].pinCount <= 0
    THEN CHOOSE i \in 1 .. Len(st.frames) :
            /\ st.frames[i].pinCount <= 0
            /\ \A j \in 1 .. i - 1 : st.frames[j].pinCount > 0
    ELSE Len(st.frames)

\* the victim loop of pinPage: first frame from the head with pinCount = 0
pickVictim(st) ==
    IF \E i \in 1 .. Len(st.frames) : st.frames[i].pinCount <= 0
    THEN CHOOSE i \in 1 .. Len(st.frames) :
            /\ st.frames[i].pinCount <= 0
            /\ \A j \in 1 .. i - 1 : st.frames[j].pinCount > 0
    ELSE 0

\* result: rc, pool state, file, and the locals of the call: path taken,
\* victim (0 = none), rc of the victim's io_write_page, rc of readBlock
pinPage(st, d, pageNum, fw, fr) ==
    LET hit == fr_find(st, pageNum) IN
    IF hit # 0
    THEN [rc |-> RC_OK, disk |-> d, path |-> "hit", victim |-> 0,
          wrc |-> NOT_CALLED, rd |-> NOT_CALLED,
          st |-> [st EXCEPT !.frames[hit].pinCount = st.frames[hit].pinCount + 1,
                            !.frames[hit].refCount = st.frames[hit].refCount + 1,
                            !.tick = st.tick + 1,
                            !.frames[hit].lastTouch = st.tick + 1]]
    ELSE IF st.used < st.capacity
    THEN LET r == io_read_page(d, pageNum, ZeroPage, fr) IN
         IF r.rc # RC_OK
         THEN [rc |-> r.rc, disk |-> r.disk, path |-> "fill", victim |-> 0,
               wrc |-> NOT_CALLED, rd |-> r.rd, st |-> st]
         ELSE LET s1 == [st EXCEPT !.reads = st.reads + r.inc, !.tick = st.tick + 1]
                  f  == [fr_new(r.buf, pageNum) EXCEPT !.lastTouch = s1.tick]
              IN  [rc |-> RC_OK, disk |-> r.disk, path |-> "fill", victim |-> 0,
                   wrc |-> NOT_CALLED, rd |-> r.rd, st |-> fr_push_back(s1, f)]
    ELSE LET victim == pickVictim(st) IN
         IF victim = 0
         THEN [rc |-> RC_PINNED_PAGES_IN_BUFFER, disk |-> d, path |-> "replace",
               victim |-> 0, wrc |-> NOT_CALLED, rd |-> NOT_CALLED, st |-> st]
         ELSE LET v  == st.frames[victim]
                  w  == IF v.isDirty
                        THEN io_write_page(d, v.pageNum, v.data, fw)
                        ELSE [rc |-> NOT_CALLED, disk |-> d, inc |-> 0]
                  s1 == [st EXCEPT !.writes = st.writes + w.inc,
                                   !.frames[victim].data = ZeroPage]
                  r  == io_read_page(w.disk, pageNum, ZeroPage, fr)
              IN  IF r.rc # RC_OK
                  THEN [rc |-> r.rc, disk |-> r.disk, path |-> "replace",
                        victim |-> victim, wrc |-> w.rc, rd |-> r.rd, st |-> s1]
                  ELSE [rc |-> RC_OK, disk |-> r.disk, path |-> "replace",
                        victim |-> victim, wrc |-> w.rc, rd |-> r.rd,
                        st |-> [s1 EXCEPT !.reads = s1.reads + r.inc,
                                          !.tick = s1.tick + 1,
                                          !.frames[victim].data = r.buf,
                                          !.frames[victim].pageNum = pageNum,
                                          !.frames[victim].pinCount = 1,
                                          !.frames[victim].refCount = 1,
                                          !.frames[victim].lastTouch = s1.tick + 1]]

getFrameContents(st) == [i \in 1 .. Len(st.frames) |-> st.frames[i].pageNum]
getDirtyFlags(st)    == [i \in 1 .. Len(st.frames) |-> st.frames[i].isDirty]
getFixCounts(st)     == [i \in 1 .. Len(st.frames) |-> st.frames[i].pinCount]
getNumReadIO(bm, st)  == IF bm.mgmtData THEN st.reads ELSE 0
getNumWriteIO(bm, st) == IF bm.mgmtData THEN st.writes ELSE 0

\* ============================= record_mgr.c =============================

\* A record slot is <<tombstone byte, payload>>; the payload (the recSize - 1
\* bytes after the tombstone) is abstracted to a number, 0 for all-zero bytes.
\* A heap page is <<3, slots>>, the metadata page is <<4, fields>>.
RM_FREE     == 0
RM_OCCUPIED == 1
RM_DEFAULT_POOL_PAGES == 100

rm_marker(t)       == IF t = RM_OCCUPIED THEN 1 ELSE 0
rm_is_occupied(b)  == b = 1

DT_INT    == "DT_INT"
DT_STRING == "DT_STRING"
DT_FLOAT  == "DT_FLOAT"
DT_BOOL   == "DT_BOOL"

RC_RM_NO_MORE_TUPLES          == "RC_RM_NO_MORE_TUPLES"
RC_RM_NO_TUPLE_WITH_GIVEN_RID == "RC_RM_NO_TUPLE_WITH_GIVEN_RID"
RC_SCAN_CONDITION_NOT_FOUND   == "RC_SCAN_CONDITION_NOT_FOUND"
RC_MEMORY_ALLOCATION_ERROR    == "RC_MEMORY_ALLOCATION_ERROR"
\* pinPage on a pool whose mgmtData is NULL reads st->head through NULL
SIGSEGV                       == "SIGSEGV"

HeapPage(slots) == <<3, slots>>
MetaPage(m)     == <<4, m>>
NoPage          == -1
NoRecord        == [id |-> [page |-> -1, slot |-> -1], data |-> <<RM_FREE, 0>>]

\* a schema is the sequence of its attributes [dataType, typeLength]
RECURSIVE attrBytes(_, _)
attrBytes(schema, i) ==
    IF i > Len(schema) THEN 0
    ELSE (CASE schema[i].dataType = DT_STRING -> schema[i].typeLength
            [] schema[i].dataType = DT_INT    -> 4
            [] schema[i].dataType = DT_FLOAT  -> 4
            [] schema[i].dataType = DT_BOOL   -> 1)
         + attrBytes(schema, i + 1)

getRecordSize(schema) == attrBytes(schema, 1) + 1

\* the bytes of a page buffer read as record slots: a zeroed buffer is all
\* free slots, "Page-<n>" puts the byte 'P' (80) where slot 0 has its tombstone.
\* A payload v is the bytes (v, 0, 0, ...). On page 0 slot 0 lies over the
\* header: its tombstone is the low byte of tupleCount (little-endian int),
\* its first payload byte the next one; the other slots lie past the
\* attribute entries (records are longer than the header), in tail.
rm_slots(page, slotsPerPage) ==
    CASE page[1] = 3 -> page[2]
      [] page[1] = 4 -> [s \in 1 .. slotsPerPage |->
                            IF s = 1
                            THEN <<page[2].tupleCount % 256,
                                   (page[2].tupleCount \div 256) % 256>>
                            ELSE IF s - 1 <= Len(page[2].tail)
                                 THEN page[2].tail[s - 1]
                                 ELSE <<RM_FREE, 0>>]
      [] page[1] = 0 -> [s \in 1 .. slotsPerPage |-> <<RM_FREE, 0>>]
      [] page[1] = 2 -> [s \in 1 .. slotsPerPage |->
                            IF s = 1 THEN <<80, 0>> ELSE <<RM_FREE, 0>>]

\* the bytes of a page buffer read as the header of page 0; "Page" read as a
\* little-endian int is 1701273936, "-<n>" is 45 + 256 * (48 + n)
rm_meta(page) ==
    CASE page[1] = 4 -> page[2]
      [] page[1] = 0 -> [tupleCount |-> 0, firstFreePage |-> 0, schema |-> << >>,
                         tail |-> << >>]
      [] page[1] = 2 -> [tupleCount |-> 1701273936,
                         firstFreePage |-> 45 + 256 * (48 + page[2]),
                         schema |-> << >>, tail |-> << >>]

\* the page buffer after the tombstone of slot sl (from 0) is set to tomb
\* and, when copy is set, its payload to v. On page 0 a tombstone in slot 0
\* replaces the low byte of tupleCount, and a payload there puts v over the
\* second byte of tupleCount and zero bytes over the rest of the header and
\* the attribute entries.
rm_write(page, slotsPerPage, sl, tomb, copy, v) ==
    IF page[1] = 4
    THEN MetaPage(
           IF sl = 0
           THEN IF copy
                THEN [page[2] EXCEPT !.tupleCount = tomb + 256 * v,
                                     !.firstFreePage = 0,
                                     !.schema = << >>]
                ELSE [page[2] EXCEPT !.tupleCount = (@ - (@ % 256)) + tomb]
           ELSE [page[2] EXCEPT !.tail =
                   [s \in 1 .. slotsPerPage - 1 |->
                       IF s = sl
                       THEN <<tomb, IF copy THEN v
                                    ELSE rm_slots(page, slotsPerPage)[s + 1][2]>>
                       ELSE rm_slots(page, slotsPerPage)[s + 1]]])
    ELSE HeapPage([rm_slots(page, slotsPerPage) EXCEPT ![sl + 1] =
                      <<tomb, IF copy THEN v ELSE @[2]>>])

\* mutant: the tombstones are not looked at
rm_find_free_slot_first(pageData, recSize) ==
    IF PAGE_SIZE \div recSize > 0 THEN 0 ELSE -1

\* mutant: the loop runs from the last slot down
rm_find_free_slot_last(pageData, recSize) ==
    LET slots == PAGE_SIZE \div recSize
        s     == rm_slots(pageData, slots)
    IN  IF \E i \in 1 .. slots : ~rm_is_occupied(s[i][1])
        THEN (CHOOSE i \in 1 .. slots :
                 /\ ~rm_is_occupied(s[i][1])
                 /\ \A j \in i + 1 .. slots : rm_is_occupied(s[j][1])) - 1
        ELSE -1

rm_find_free_slot(pageData, recSize) ==
    LET slots == PAGE_SIZE \div recSize
        s     == rm_slots(pageData, slots)
    IN  IF \E i \in 1 .. slots : ~rm_is_occupied(s[i][1])
        THEN (CHOOSE i \in 1 .. slots :
                 /\ ~rm_is_occupied(s[i][1])
                 /\ \A j \in 1 .. i - 1 : rm_is_occupied(s[j][1])) - 1
        ELSE -1

\* page->data of a handle whose pageNum is pn: the buffer of that frame
rm_data(st, pn)       == st.frames[fr_find(st, pn)].data
rm_store(st, pn, buf) == [st EXCEPT !.frames[fr_find(st, pn)].data = buf]

\* the n-th pinPage call of a handler runs under the fault fq[n]
FaultAt(fq, n) == IF n <= Len(fq) THEN fq[n] ELSE NoFault

\* pinPage(&ctx->pool, &h, pn) for a handle h; ctx is an RMContext
\* [alloc, bm, st, page, tupleCount, firstFreePage]. The result has pinPage's
\* fields rc, st and disk.
rm_pin(ctx, d, pn, f) ==
    IF ~ctx.bm.mgmtData
    THEN [rc |-> SIGSEGV, st |-> ctx.st, disk |-> d]
    ELSE pinPage(ctx.st, d, pn, NoFault, f)

\* g_ctx = NULL
NullCtx == [alloc |-> FALSE]

\* the pool of a table has RM_DEFAULT_POOL_PAGES frames; the model keeps
\* MaxPoolPages of them, so that a table of a few pages overflows its pool as
\* a table of more than RM_DEFAULT_POOL_PAGES pages overflows the real one.
\* f is the fault under openPageFile / writeBlock.
\* page0 is a local array that createTable fills up to the last attribute
\* entry only: the bytes behind it, written to the file with the rest, are
\* whatever the stack held. junk is what they are when read as the slots 1..
\* of page 0.
createTable_on(schema, junk, f) ==
    LET ib    == initBufferPool(Min(RM_DEFAULT_POOL_PAGES, MaxPoolPages), RS_LRU)
        page0 == MetaPage([tupleCount |-> 0, firstFreePage |-> 1, schema |-> schema,
                           tail |-> junk])
        o     == openPageFile(createPageFile, f)
        w     == writeBlock(0, o.fh, createPageFile, page0, f)
    IN  IF o.rc # RC_OK THEN [rc |-> o.rc, ctx |-> NullCtx, disk |-> createPageFile]
        ELSE IF w.rc # RC_OK THEN [rc |-> w.rc, ctx |-> NullCtx, disk |-> w.disk]
        ELSE [rc   |-> RC_OK,
              ctx  |-> [alloc |-> TRUE, bm |-> ib.bm, st |-> ib.st, page |-> NoPage,
                        tupleCount |-> 0, firstFreePage |-> 1],
              disk |-> w.disk]

\* no record call of a client that keeps to rids on pages 1.. reads the bytes
\* behind the header of page 0: they are taken as zero
ZeroTail(schema) ==
    [s \in 1 .. PAGE_SIZE \div getRecordSize(schema) - 1 |-> <<RM_FREE, 0>>]
createTable(schema, f) == createTable_on(schema, ZeroTail(schema), f)

\* openTable from its forcePage on: w is forcePage's result, m the header
\* that was read from page 0
openTable_forced(c, m, w) ==
    [rc |-> w.rc, ctx |-> [c EXCEPT !.st = w.st], disk |-> w.disk,
     bound |-> TRUE, loaded |-> TRUE, schema |-> m.schema]

\* openTable from its pinPage on: p is pinPage's result
openTable_pinned(g, p, fw) ==
    IF p.rc # RC_OK
    THEN [rc |-> p.rc, ctx |-> [g EXCEPT !.st = p.st], disk |-> p.disk,
          bound |-> TRUE, loaded |-> FALSE, schema |-> << >>]
    ELSE LET m == rm_meta(rm_data(p.st, 0))
             u == unpinPage(p.st, 0)
             c == [g EXCEPT !.page = 0, !.tupleCount = m.tupleCount,
                            !.firstFreePage = m.firstFreePage]
         IN  IF u.rc # RC_OK
             THEN [rc |-> u.rc, ctx |-> [c EXCEPT !.st = u.st], disk |-> p.disk,
                   bound |-> TRUE, loaded |-> TRUE, schema |-> m.schema]
             ELSE openTable_forced(c, m, forcePage(u.st, p.disk, 0, fw))

\* result: rc, g_ctx, the file, whether rel->mgmtData and rel->schema were set
openTable(g, d, fr, fw) ==
    IF ~g.alloc
    THEN [rc |-> RC_ERROR, ctx |-> g, disk |-> d,
          bound |-> FALSE, loaded |-> FALSE, schema |-> << >>]
    ELSE openTable_pinned(g, rm_pin(g, d, 0, fr), fw)

\* closeTable after shutdownBufferPool, whose result s.rc is dropped
closeTable_shut(ctx, s) ==
    [rc |-> RC_OK, ctx |-> [ctx EXCEPT !.bm = s.bm, !.st = s.st], disk |-> s.disk]

closeTable(ctx, d, fs) ==
    closeTable_shut(ctx, shutdownBufferPool(ctx.bm, ctx.st, d, fs))

getNumTuples(ctx) == ctx.tupleCount

\* "Persist counts", the tail of insertRecord and deleteRecord, from its
\* pinPage on: p is pinPage's result
rm_persist_pinned(ctx, p) ==
    IF p.rc # RC_OK THEN [rc |-> p.rc, ctx |-> [ctx EXCEPT !.st = p.st], disk |-> p.disk]
    ELSE LET m  == [rm_meta(rm_data(p.st, 0)) EXCEPT
                       !.tupleCount = ctx.tupleCount,
                       !.firstFreePage = ctx.firstFreePage]
             k  == markDirty(rm_store(p.st, 0, MetaPage(m)), 0)
         IN  IF k.rc # RC_OK
             THEN [rc |-> k.rc, ctx |-> [ctx EXCEPT !.st = k.st, !.page = 0],
                   disk |-> p.disk]
             ELSE [rc   |-> unpinPage(k.st, 0).rc,
                   ctx  |-> [ctx EXCEPT !.st = unpinPage(k.st, 0).st, !.page = 0],
                   disk |-> p.disk]

\* f is the fault under the pinPage
rm_persist(ctx, d, f) == rm_persist_pinned(ctx, rm_pin(ctx, d, 0, f))

\* the while loop of insertRecord: page is pinned, n pinPage calls were made
RECURSIVE rm_probe(_, _, _, _, _, _)

\* the loop body after its pinPage (result p) of page + 1
rm_probe_pinned(ctx, recSize, page, n, fq, p) ==
    IF p.rc # RC_OK
    THEN [rc |-> p.rc, ctx |-> [ctx EXCEPT !.st = p.st], disk |-> p.disk,
          page |-> page + 1, slot |-> -1, n |-> n + 1]
    ELSE rm_probe([ctx EXCEPT !.st = p.st, !.page = page + 1], p.disk,
                  recSize, page + 1, n + 1, fq)

rm_probe(ctx, d, recSize, page, n, fq) ==
    LET slot == rm_find_free_slot(rm_data(ctx.st, page), recSize)
        u    == unpinPage(ctx.st, ctx.page)
    IN
    IF slot # -1
    THEN [rc |-> RC_OK, ctx |-> ctx, disk |-> d, page |-> page, slot |-> slot, n |-> n]
    ELSE IF u.rc # RC_OK
    THEN [rc |-> u.rc, ctx |-> [ctx EXCEPT !.st = u.st], disk |-> d,
          page |-> page, slot |-> slot, n |-> n]
    ELSE rm_probe_pinned([ctx EXCEPT !.st = u.st], recSize, page, n, fq,
            rm_pin([ctx EXCEPT !.st = u.st], d, page + 1, FaultAt(fq, n + 1)))

\* insertRecord at its return: b is the slot found, t the result of the
\* "Persist" tail
insertRecord_ret(b, t) ==
    [rc |-> t.rc, ctx |-> t.ctx, disk |-> t.disk,
     id |-> [page |-> b.page, slot |-> b.slot]]

\* insertRecord from the slot write on: b is the result of the probe loop
insertRecord_store(recSize, v, fq, b) ==
    IF b.rc # RC_OK
    THEN [rc |-> b.rc, ctx |-> b.ctx, disk |-> b.disk,
          id |-> [page |-> b.page, slot |-> -1]]
    ELSE LET k  == markDirty(rm_store(b.ctx.st, b.page,
                                rm_write(rm_data(b.ctx.st, b.page),
                                         PAGE_SIZE \div recSize, b.slot,
                                         rm_marker(RM_OCCUPIED), TRUE, v)),
                             b.page)
             u  == unpinPage(k.st, b.page)
         IN  IF k.rc # RC_OK \/ u.rc # RC_OK
             THEN [rc |-> IF k.rc # RC_OK THEN k.rc ELSE u.rc,
                   ctx |-> [b.ctx EXCEPT !.st = u.st], disk |-> b.disk,
                   id |-> [page |-> b.page, slot |-> b.slot]]
             ELSE insertRecord_ret(b,
                     rm_persist([b.ctx EXCEPT
                                   !.st = u.st,
                                   !.tupleCount = b.ctx.tupleCount + 1,
                                   !.firstFreePage =
                                       IF b.page > b.ctx.firstFreePage
                                       THEN b.page ELSE b.ctx.firstFreePage],
                                b.disk, FaultAt(fq, b.n + 1)))

\* insertRecord from its first pinPage on: p is pinPage's result
insertRecord_pinned(ctx, recSize, v, fq, p) ==
    IF p.rc # RC_OK
    THEN [rc |-> p.rc, ctx |-> [ctx EXCEPT !.st = p.st], disk |-> p.disk,
          id |-> [page |-> ctx.firstFreePage, slot |-> -1]]
    ELSE insertRecord_store(recSize, v, fq,
            rm_probe([ctx EXCEPT !.st = p.st, !.page = ctx.firstFreePage],
                     p.disk, recSize, ctx.firstFreePage, 1, fq))

\* result: rc, ctx, the file and record->id; v is the payload of record->data
insertRecord(ctx, d, schema, v, fq) ==
    IF getRecordSize(schema) <= 0
    THEN [rc |-> RC_MEMORY_ALLOCATION_ERROR, ctx |-> ctx, disk |-> d, id |-> NoRecord.id]
    ELSE insertRecord_pinned(ctx, getRecordSize(schema), v, fq,
            rm_pin(ctx, d, ctx.firstFreePage, FaultAt(fq, 1)))

\* the slot write shared by deleteRecord and updateRecord, then markDirty and
\* unpinPage, from the pinPage on (result p): the tombstone of slot id.slot
\* becomes tomb and, when copy is set, the payload becomes v (memcpy of
\* record->data + 1)
rm_put_pinned(ctx, recSize, id, tomb, copy, v, p) ==
    IF p.rc # RC_OK THEN [rc |-> p.rc, ctx |-> [ctx EXCEPT !.st = p.st], disk |-> p.disk]
    ELSE IF recSize <= 0
    THEN [rc |-> RC_MEMORY_ALLOCATION_ERROR,
          ctx |-> [ctx EXCEPT !.st = unpinPage(p.st, id.page).st, !.page = id.page],
          disk |-> p.disk]
    ELSE LET k  == markDirty(rm_store(p.st, id.page,
                                rm_write(rm_data(p.st, id.page),
                                         PAGE_SIZE \div recSize, id.slot,
                                         tomb, copy, v)),
                             id.page)
         IN  IF k.rc # RC_OK
             THEN [rc |-> k.rc, ctx |-> [ctx EXCEPT !.st = k.st, !.page = id.page],
                   disk |-> p.disk]
             ELSE [rc   |-> unpinPage(k.st, id.page).rc,
                   ctx  |-> [ctx EXCEPT !.st = unpinPage(k.st, id.page).st,
                                        !.page = id.page],
                   disk |-> p.disk]

rm_put(ctx, d, schema, id, tomb, copy, v, f) ==
    rm_put_pinned(ctx, getRecordSize(schema), id, tomb, copy, v,
                  rm_pin(ctx, d, id.page, f))

\* mutant: tupleCount is left as it was
deleteRecord_nocount(id, fq, w) ==
    IF w.rc # RC_OK THEN w
    ELSE rm_persist([w.ctx EXCEPT !.firstFreePage = id.page], w.disk, FaultAt(fq, 2))

\* deleteRecord after the tombstone is cleared (result w): the counters
deleteRecord_count(id, fq, w) ==
    IF w.rc # RC_OK THEN w
    ELSE rm_persist([w.ctx EXCEPT
                       !.firstFreePage = id.page,
                       !.tupleCount = IF w.ctx.tupleCount > 0
                                      THEN w.ctx.tupleCount - 1
                                      ELSE w.ctx.tupleCount],
                    w.disk, FaultAt(fq, 2))

\* mutant: the tombstone byte is left as it was
deleteRecord_unmarked(ctx, d, schema, id, fq) ==
    deleteRecord_count(id, fq,
       rm_put(ctx, d, schema, id, rm_marker(RM_OCCUPIED), FALSE, 0, FaultAt(fq, 1)))

\* the tombstone byte is cleared, the payload bytes stay
deleteRecord(ctx, d, schema, id, fq) ==
    deleteRecord_count(id, fq,
       rm_put(ctx, d, schema, id, rm_marker(RM_FREE), FALSE, 0, FaultAt(fq, 1)))

updateRecord(ctx, d, schema, id, v, fq) ==
    rm_put(ctx, d, schema, id, rm_marker(RM_OCCUPIED), TRUE, v, FaultAt(fq, 1))

\* getRecord from its pinPage on: p is pinPage's result
\* mutant: the early return for a free slot forgets unpinPage
getRecord_leak(ctx, recSize, id, record, p) ==
    IF p.rc # RC_OK
    THEN [rc |-> p.rc, ctx |-> [ctx EXCEPT !.st = p.st], disk |-> p.disk, out |-> record]
    ELSE LET slot == rm_slots(rm_data(p.st, id.page), PAGE_SIZE \div recSize)[id.slot + 1]
             u    == unpinPage(p.st, id.page)
         IN  IF ~rm_is_occupied(slot[1])
             THEN [rc |-> RC_RM_NO_TUPLE_WITH_GIVEN_RID,
                   ctx |-> [ctx EXCEPT !.st = p.st, !.page = id.page],
                   disk |-> p.disk, out |-> record]
             ELSE [rc |-> u.rc, ctx |-> [ctx EXCEPT !.st = u.st, !.page = id.page],
                   disk |-> p.disk, out |-> [id |-> id, data |-> slot]]

getRecord_pinned(ctx, recSize, id, record, p) ==
    IF p.rc # RC_OK
    THEN [rc |-> p.rc, ctx |-> [ctx EXCEPT !.st = p.st], disk |-> p.disk, out |-> record]
    ELSE LET slot == rm_slots(rm_data(p.st, id.page), PAGE_SIZE \div recSize)[id.slot + 1]
             u    == unpinPage(p.st, id.page)
             c    == [ctx EXCEPT !.st = u.st, !.page = id.page]
         IN  IF recSize <= 0
             THEN [rc |-> RC_MEMORY_ALLOCATION_ERROR, ctx |-> c, disk |-> p.disk,
                   out |-> record]
             ELSE IF ~rm_is_occupied(slot[1])
             THEN [rc |-> RC_RM_NO_TUPLE_WITH_GIVEN_RID, ctx |-> c, disk |-> p.disk,
                   out |-> record]
             ELSE [rc |-> u.rc, ctx |-> c, disk |-> p.disk,
                   out |-> [id |-> id, data |-> slot]]

\* result: rc, ctx, the file and *record (left as it was on failure)
getRecord(ctx, d, schema, id, record, fq) ==
    getRecord_pinned(ctx, getRecordSize(schema), id, record,
                     rm_pin(ctx, d, id.page, FaultAt(fq, 1)))

\* evalExpr (expr.c) maps a record and an expression to a Value: the
\* expressions of the model are "all" (the constant TRUE), "eq1" (payload = 1)
\* and "attr" (a bare attribute reference, whose value is not a boolean)
evalExpr(data, cond) ==
    CASE cond = "all"  -> [rc |-> RC_OK, dt |-> DT_BOOL, boolV |-> TRUE]
      [] cond = "eq1"  -> [rc |-> RC_OK, dt |-> DT_BOOL, boolV |-> data[2] = 1]
      [] cond = "attr" -> [rc |-> RC_OK, dt |-> DT_INT,  boolV |-> FALSE]

Conds == {"all", "eq1", "attr"}

\* mutant: every occupied slot matches
match_any(slot, cond) == TRUE

\* next: match = (evalRes->dt == DT_BOOL && evalRes->v.boolV == TRUE)
match(slot, cond) ==
    evalExpr(slot, cond).dt = DT_BOOL /\ evalExpr(slot, cond).boolV

\* the RMContext of a scan: the pool copy and tupleCount are never read
startScan(ctx, cond) ==
    [rc |-> RC_OK,
     s  |-> [page |-> NoPage, cursor |-> [page |-> 1, slot |-> -1], scanned |-> 0,
             pred |-> cond, tupleCount |-> ctx.tupleCount,
             firstFreePage |-> ctx.firstFreePage]]

\* the while loop of next with safetyCap = cap left; n pinPage calls were made;
\* capped tells that the loop ran out of safetyCap
RECURSIVE rm_scan(_, _, _, _, _, _, _, _)

\* the loop body after its pinPage (result p) of the cursor's page; s1 is the
\* scan with the cursor advanced
rm_scan_pinned(s1, t, recSize, out, cap, n, fq, p) ==
    IF p.rc # RC_OK
    THEN [rc |-> p.rc, s |-> s1, t |-> [t EXCEPT !.st = p.st], disk |-> p.disk,
          out |-> out, capped |-> FALSE]
    ELSE LET cur  == s1.cursor
             slot == rm_slots(rm_data(p.st, cur.page),
                              PAGE_SIZE \div recSize)[cur.slot + 1]
             u    == unpinPage(p.st, cur.page)
             s2   == [s1 EXCEPT !.page = cur.page]
             t2   == [t EXCEPT !.st = u.st]
             o2   == [id |-> cur, data |-> slot]
             e    == evalExpr(slot, s1.pred)
         IN  IF ~rm_is_occupied(slot[1])
             THEN IF u.rc # RC_OK
                  THEN [rc |-> u.rc, s |-> s2, t |-> t2, disk |-> p.disk,
                        out |-> out, capped |-> FALSE]
                  ELSE rm_scan(s2, t2, p.disk, recSize, out, cap - 1, n + 1, fq)
             ELSE IF e.rc # RC_OK \/ u.rc # RC_OK
             THEN [rc |-> IF e.rc # RC_OK THEN e.rc ELSE u.rc,
                   s |-> s2, t |-> t2, disk |-> p.disk, out |-> o2,
                   capped |-> FALSE]
             ELSE IF match(slot, s1.pred)
             THEN [rc |-> RC_OK, s |-> s2, t |-> t2, disk |-> p.disk, out |-> o2,
                   capped |-> FALSE]
             ELSE rm_scan(s2, t2, p.disk, recSize, o2, cap - 1, n + 1, fq)

rm_scan(s, t, d, recSize, out, cap, n, fq) ==
    LET slotsPerPage == PAGE_SIZE \div recSize
        wrap == s.cursor.slot + 1 >= slotsPerPage
        pg   == IF wrap THEN s.cursor.page + 1 ELSE s.cursor.page
        cur  == [page |-> IF pg <= 0 THEN 1 ELSE pg,
                 slot |-> IF wrap THEN 0 ELSE s.cursor.slot + 1]
    IN
    IF cap <= 0
    THEN [rc |-> RC_RM_NO_MORE_TUPLES, s |-> s, t |-> t, disk |-> d, out |-> out,
          capped |-> TRUE]
    ELSE IF cur.page > s.firstFreePage + 1
    THEN [rc |-> RC_RM_NO_MORE_TUPLES, s |-> [s EXCEPT !.cursor = cur], t |-> t,
          disk |-> d, out |-> out, capped |-> FALSE]
    ELSE rm_scan_pinned([s EXCEPT !.cursor = cur], t, recSize, out, cap, n, fq,
                        rm_pin(t, d, cur.page, FaultAt(fq, n + 1)))

\* mutant: safetyCap covers one page only
next_one_page(s, t, d, schema, out, fq) ==
    rm_scan(s, t, d, getRecordSize(schema), out,
            PAGE_SIZE \div getRecordSize(schema), 0, fq)

\* next(scan, out): s is scan->mgmtData, t is scan->rel->mgmtData
next(s, t, d, schema, out, fq) ==
    IF getRecordSize(schema) <= 0
    THEN [rc |-> RC_ERROR, s |-> s, t |-> t, disk |-> d, out |-> out, capped |-> FALSE]
    ELSE rm_scan(s, t, d, getRecordSize(schema), out,
                 (s.firstFreePage + 2) * (PAGE_SIZE \div getRecordSize(schema)) + 2,
                 0, fq)

\* ============================ the state machine ==========================

VARIABLES
    disk,        \* the page file named by bm->pageFile
    bm,          \* BM_BufferPool: numPages, strategy, mgmtData (FALSE = NULL)
    st,          \* BpState behind bm->mgmtData
    insertTick,  \* per frame: the tick at which its resident page was read in
    arg,         \* pinPage: << pageNum >> of the last call
    op,          \* the last call, when it was pinPage, forceFlushPool or
                 \* shutdownBufferPool ("other" after any other call)
    rc,          \* the return code of that call
    path,        \* pinPage: branch taken ("hit", "fill", "replace")
    victim,      \* pinPage: local victim (0 = none)
    wrc,         \* pinPage: rc of the victim's io_write_page
    rd,          \* pinPage: rc of readBlock inside io_read_page
    g_ctx,       \* record_mgr.c: the RMContext behind g_ctx (NullCtx = NULL)
    rel,         \* the client's RM_TableData: mgmtData set, schema loaded
    scans,       \* the client's RM_ScanHandles: the RMContext of each scan
    out,         \* the client's Record buffer handed to getRecord and next
    gh,          \* history of the record calls made so far
    fHandle,     \* storage_mgr.c: a client's SM_FileHandle on the page file
    tables       \* two tables of one process: contexts, files and handles

poolvars == <<bm, st, insertTick, path, victim, wrc, rd>>
rmvars   == <<g_ctx, rel, scans, out, gh>>
smvars   == <<fHandle, tables>>
vars == <<disk, bm, st, insertTick, arg, op, rc, path, victim, wrc, rd,
          g_ctx, rel, scans, out, gh, fHandle, tables>>

NoHistory ==
    [live  |-> {},    \* records inserted and not deleted since, [id, data]
     dead  |-> {},    \* rids deleted and not given to insert or update since
     n     |-> 0,     \* successful insertRecord calls
     k     |-> 0,     \* successful deleteRecord calls on an occupied slot
     plain |-> TRUE,  \* no deleteRecord or updateRecord was given a free slot
     ops   |-> 0]     \* record calls made
NoRel == [mgmtData |-> FALSE, loaded |-> FALSE, schema |-> << >>]
\* no SM_FileHandle was opened by the client
NoHandle == [totalNumPages |-> 0, curPagePos |-> 0]
\* no table was created: g is the context g_ctx points to (0 = NULL)
NoTables ==
    [ctx   |-> << >>,
     g     |-> 0,
     files |-> [n \in 1 .. 2 |-> << >>],
     rels  |-> [h \in 1 .. 2 |-> [mgmtData |-> 0, loaded |-> FALSE, schema |-> << >>]],
     ops   |-> 0]

NoLocals ==
    /\ arg' = << >>
    /\ path' = "none" /\ victim' = 0 /\ wrc' = NOT_CALLED /\ rd' = NOT_CALLED
    /\ UNCHANGED <<rmvars, smvars>>

\* unpinPage, markDirty, forcePage and client writes are not observed
Unobserved ==
    /\ op' = "other" /\ rc' = NOT_CALLED /\ NoLocals

\* the state after createPageFile and initBufferPool(numPages = n, strategy)
InitWith(strategies) ==
    /\ disk = createPageFile
    /\ \E n \in 1 .. MaxCapacity, s \in strategies :
          /\ bm = initBufferPool(n, s).bm
          /\ st = initBufferPool(n, s).st
    /\ insertTick = << >>
    /\ op = "initBufferPool" /\ rc = RC_OK /\ arg = << >>
    /\ path = "none" /\ victim = 0 /\ wrc = NOT_CALLED /\ rd = NOT_CALLED
    /\ g_ctx = NullCtx /\ rel = NoRel /\ scans = << >> /\ out = NoRecord
    /\ gh = NoHistory
    /\ fHandle = NoHandle /\ tables = NoTables

\* the pool as createTable sets it up: RS_LRU
Init == InitWith({RS_LRU})

\* a pool of either strategy
InitPolicy == InitWith({RS_FIFO, RS_LRU})

\* the io_write_page / io_read_page calls a pinPage(p) will make: a fault is
\* an input only of a call that happens
WritesVictim(p) ==
    /\ fr_find(st, p) = 0
    /\ st.used >= st.capacity
    /\ pickVictim(st) # 0
    /\ st.frames[pickVictim(st)].isDirty

ReadsPage(p) ==
    /\ fr_find(st, p) = 0
    /\ st.used < st.capacity \/ pickVictim(st) # 0

FlushWrites(i) ==
    i \in 1 .. Len(st.frames) /\ st.frames[i].isDirty /\ st.frames[i].pinCount = 0

\* an "extend" fault needs an ensureCapacity(pn + 1) that has pages to append
ExtendsFile(f, pn) ==
    f[1] = "extend" => (pn >= Len(disk) /\ f[2] < pn + 1 - Len(disk))

PinPage(p, fw, fr) ==
    /\ bm.mgmtData
    /\ st.writes < MaxWrites
    /\ fr_find(st, p) # 0 => st.frames[fr_find(st, p)].pinCount < MaxPin
    /\ fw = NoFault \/ (WritesVictim(p) /\ ExtendsFile(fw, st.frames[pickVictim(st)].pageNum))
    /\ fr = NoFault \/ (ReadsPage(p) /\ ExtendsFile(fr, p))
    /\ LET r == pinPage(st, disk, p, fw, fr) IN
       /\ st' = r.st /\ disk' = r.disk /\ rc' = r.rc
       /\ path' = r.path /\ victim' = r.victim /\ wrc' = r.wrc /\ rd' = r.rd
       /\ insertTick' =
            IF r.rc = RC_OK /\ r.path = "fill" THEN Append(insertTick, r.st.tick)
            ELSE IF r.rc = RC_OK /\ r.path = "replace"
                 THEN [insertTick EXCEPT ![r.victim] = r.st.tick]
                 ELSE insertTick
    /\ op' = "pinPage" /\ arg' = << p >>
    /\ UNCHANGED bm
    /\ UNCHANGED <<rmvars, smvars>>

UnpinPage(p) ==
    /\ bm.mgmtData
    /\ st' = unpinPage(st, p).st
    /\ Unobserved
    /\ UNCHANGED <<disk, bm, insertTick>>

MarkDirty(p) ==
    /\ bm.mgmtData
    /\ st' = markDirty(st, p).st
    /\ Unobserved
    /\ UNCHANGED <<disk, bm, insertTick>>

\* a client holding a pin on page p writes v through handle->data and calls
\* markDirty (record_mgr.c: the slot write of insertRecord, then markDirty)
WriteBuffer(p, v) ==
    /\ bm.mgmtData
    /\ LET f == fr_find(st, p) IN
       /\ f # 0
       /\ st.frames[f].pinCount > 0
       /\ st' = markDirty([st EXCEPT !.frames[f].data = UserPage(v)], p).st
    /\ Unobserved
    /\ UNCHANGED <<disk, bm, insertTick>>

ForcePage(p, fw) ==
    /\ bm.mgmtData
    /\ fw = NoFault \/ (fr_find(st, p) # 0 /\ ExtendsFile(fw, p))
    /\ st.writes < MaxWrites
    /\ LET r == forcePage(st, disk, p, fw) IN
       st' = r.st /\ disk' = r.disk
    /\ Unobserved
    /\ UNCHANGED <<bm, insertTick>>

ForceFlushPool(fs) ==
    /\ bm.mgmtData
    /\ \A i \in 1 .. MaxCapacity :
          fs[i] = NoFault \/ (FlushWrites(i) /\ ExtendsFile(fs[i], st.frames[i].pageNum))
    /\ st.writes < MaxWrites
    /\ LET r == forceFlushPool(bm, st, disk, fs) IN
       st' = r.st /\ disk' = r.disk /\ rc' = r.rc
    /\ op' = "forceFlushPool"
    /\ NoLocals
    /\ UNCHANGED <<bm, insertTick>>

ShutdownBufferPool(fs) ==
    /\ bm.mgmtData
    /\ st.writes < MaxWrites
    /\ \A i \in 1 .. MaxCapacity :
          fs[i] = NoFault \/ (FlushWrites(i) /\ ExtendsFile(fs[i], st.frames[i].pageNum))
    /\ LET r == shutdownBufferPool(bm, st, disk, fs) IN
       /\ bm' = r.bm /\ st' = r.st /\ disk' = r.disk /\ rc' = r.rc
       /\ insertTick' = IF r.bm.mgmtData THEN insertTick ELSE << >>
    /\ op' = "shutdownBufferPool"
    /\ NoLocals

FaultSeqs == [1 .. MaxCapacity -> Faults]

Pin(p, fw, fr) == st.tick < MaxTick /\ PinPage(p, fw, fr)

Next ==
    \/ \E p \in PageNums, fw \in Faults, fr \in Faults : Pin(p, fw, fr)
    \/ \E p \in PageNums : UnpinPage(p)
    \/ \E p \in PageNums : MarkDirty(p)
    \/ \E p \in PageNums, v \in Vals : WriteBuffer(p, v)
    \/ \E p \in PageNums, fw \in Faults : ForcePage(p, fw)
    \/ \E fs \in FaultSeqs : ForceFlushPool(fs)
    \/ \E fs \in FaultSeqs : ShutdownBufferPool(fs)

Spec == Init /\ [][Next]_vars

\* replacement policy runs: pins and unpins only, no faults, pages 1, 2, ...
PolicyPages == 1 .. MaxCapacity + 1

PolicyPin(p) == st.tick < MaxPolicyTick /\ PinPage(p, NoFault, NoFault)

NextPolicy ==
    \/ \E p \in PolicyPages : PolicyPin(p)
    \/ \E p \in PolicyPages : UnpinPage(p)

SpecPolicy == InitPolicy /\ [][NextPolicy]_vars

\* ----------------------------------------------- the record manager's table

\* one string attribute, sized so that k records fit on a page
Schemas ==
    { << [dataType |-> DT_STRING, typeLength |-> PAGE_SIZE \div k - 1] >> :
         k \in 1 .. MaxSlots }
RecVals == 1 .. MaxRecVal

SlotsPerPage == PAGE_SIZE \div getRecordSize(rel.schema)
\* the rids a client passes: a heap page and a slot that the page has
RIDs == [page : 1 .. MaxHeapPage, slot : 0 .. MaxSlots - 1]
ValidRID(id) == id.slot < SlotsPerPage

\* the state after createTable(name, schema); no pool besides the table's
InitRM ==
    /\ \E sch \in Schemas :
          /\ g_ctx = createTable(sch, NoFault).ctx
          /\ disk  = createTable(sch, NoFault).disk
    /\ rel = NoRel /\ scans = << >> /\ out = NoRecord /\ gh = NoHistory
    /\ bm = [numPages |-> 0, strategy |-> RS_LRU, mgmtData |-> FALSE]
    /\ st = [frames |-> << >>, used |-> 0, capacity |-> 0,
             reads |-> 0, writes |-> 0, tick |-> 0]
    /\ insertTick = << >>
    /\ op = "createTable" /\ rc = RC_OK /\ arg = << >>
    /\ path = "none" /\ victim = 0 /\ wrc = NOT_CALLED /\ rd = NOT_CALLED
    /\ fHandle = NoHandle /\ tables = NoTables

RMObserve(name, a, r) ==
    /\ op' = name /\ arg' = a /\ rc' = r
    /\ UNCHANGED <<poolvars, smvars>>

\* the process is alive, and the client has calls that modify the table left
Alive     == rc # SIGSEGV
Running   == Alive /\ gh.ops < MaxOps
\* openTable has loaded the table and closeTable has not shut its pool down
TableOpen == g_ctx.alloc /\ g_ctx.bm.mgmtData /\ rel.mgmtData /\ rel.loaded

\* the page buffer a pinPage(pn) will hand out
View(pn) ==
    IF fr_find(g_ctx.st, pn) # 0 THEN rm_data(g_ctx.st, pn)
    ELSE IF pn < Len(disk) THEN disk[pn + 1] ELSE ZeroPage
SlotAt(id)   == rm_slots(View(id.page), SlotsPerPage)[id.slot + 1]
Occupied(id) == rm_is_occupied(SlotAt(id)[1])

\* the rids of the occupied slots whose record makes cond true
HeapRIDs == [page : 1 .. MaxHeapPage + MaxOps, slot : 0 .. MaxSlots - 1]
Matching(cond) ==
    {id \in HeapRIDs : ValidRID(id) /\ Occupied(id) /\ match(SlotAt(id), cond)}

\* every open scan has seen the table change
Touched == [i \in 1 .. Len(scans) |-> [scans[i] EXCEPT !.mod = TRUE]]

NoFaults == [i \in 1 .. MaxPoolPages |-> NoFault]

\* the effect of a record call on g_ctx and the file: r is the call's result
RMEffect(name, a, r) ==
    /\ g_ctx' = r.ctx /\ disk' = r.disk
    /\ RMObserve(name, a, r.rc)

OpenTable_ret(r) ==
    /\ RMEffect("openTable", << >>, r)
    /\ rel' = [mgmtData |-> rel.mgmtData \/ r.bound,
               loaded   |-> rel.loaded \/ r.loaded,
               schema   |-> IF r.loaded THEN r.schema ELSE rel.schema]
    /\ gh' = [gh EXCEPT !.ops = gh.ops + 1]
    /\ UNCHANGED <<scans, out>>

OpenTable(fr, fw) ==
    /\ Running /\ ~TableOpen
    /\ OpenTable_ret(openTable(g_ctx, disk, fr, fw))

CloseTable_ret(r) ==
    /\ RMEffect("closeTable", << >>, r)
    /\ gh' = [gh EXCEPT !.ops = gh.ops + 1]
    /\ UNCHANGED <<rel, scans, out>>

CloseTable(fs) ==
    /\ Running /\ TableOpen
    /\ CloseTable_ret(closeTable(g_ctx, disk, fs))

InsertRecord_ret(v, r) ==
    /\ RMEffect("insertRecord", << r.id, v >>, r)
    /\ gh' = IF r.rc = RC_OK
             THEN [gh EXCEPT !.ops = gh.ops + 1, !.n = gh.n + 1,
                             !.dead = gh.dead \ {r.id},
                             !.live = gh.live \cup {[id |-> r.id, data |-> v]}]
             ELSE [gh EXCEPT !.ops = gh.ops + 1]
    /\ scans' = Touched
    /\ UNCHANGED <<rel, out>>

InsertRecord(v, fq) ==
    /\ Running /\ TableOpen
    /\ InsertRecord_ret(v, insertRecord(g_ctx, disk, rel.schema, v, fq))

DeleteRecord_ret(id, r) ==
    /\ RMEffect("deleteRecord", << id >>, r)
    /\ gh' = IF r.rc = RC_OK
             THEN [gh EXCEPT !.ops = gh.ops + 1,
                             !.k = IF Occupied(id) THEN gh.k + 1 ELSE gh.k,
                             !.plain = gh.plain /\ Occupied(id),
                             !.dead = gh.dead \cup {id},
                             !.live = {x \in gh.live : x.id # id}]
             ELSE [gh EXCEPT !.ops = gh.ops + 1]
    /\ scans' = Touched
    /\ UNCHANGED <<rel, out>>

DeleteRecord(id, fq) ==
    /\ Running /\ TableOpen
    /\ ValidRID(id)
    /\ DeleteRecord_ret(id, deleteRecord(g_ctx, disk, rel.schema, id, fq))

UpdateRecord_ret(id, v, r) ==
    /\ RMEffect("updateRecord", << id, v >>, r)
    /\ gh' = IF r.rc = RC_OK
             THEN [gh EXCEPT !.ops = gh.ops + 1,
                             !.plain = gh.plain /\ Occupied(id),
                             !.dead = gh.dead \ {id},
                             !.live = {IF x.id = id THEN [x EXCEPT !.data = v] ELSE x :
                                          x \in gh.live}]
             ELSE [gh EXCEPT !.ops = gh.ops + 1]
    /\ scans' = Touched
    /\ UNCHANGED <<rel, out>>

UpdateRecord(id, v, fq) ==
    /\ Running /\ TableOpen
    /\ ValidRID(id)
    /\ UpdateRecord_ret(id, v, updateRecord(g_ctx, disk, rel.schema, id, v, fq))

GetRecord_ret(id, r) ==
    /\ RMEffect("getRecord", << id >>, r)
    /\ out' = r.out
    /\ gh' = [gh EXCEPT !.ops = gh.ops + 1]
    /\ UNCHANGED <<rel, scans>>

GetRecord(id, fq) ==
    /\ Running /\ TableOpen
    /\ ValidRID(id)
    /\ GetRecord_ret(id, getRecord(g_ctx, disk, rel.schema, id, out, fq))

\* the rids that n further next calls return to a scan with context s that
\* runs alone on the table as it is
RECURSIVE SoloRun(_, _, _, _)
SoloRun_ret(r, n) ==
    IF r.rc # RC_OK THEN << >>
    ELSE << r.out.id >> \o SoloRun(r.s, r.t, r.disk, n - 1)
SoloRun(s, t, d, n) ==
    IF n = 0 THEN << >>
    ELSE SoloRun_ret(next(s, t, d, rel.schema, NoRecord, << >>), n)
Solo(cond) == SoloRun(startScan(g_ctx, cond).s, g_ctx, disk, Cardinality(HeapRIDs))

\* a scan of the client: its RMContext, the rids next has returned, how often
\* next has said RC_RM_NO_MORE_TUPLES, whether the last next ran out of
\* safetyCap, whether the table was modified since startScan, the rids that
\* were live with a true predicate at startScan, and the rids a scan running
\* alone returns from the table as it is at startScan
StartScan_ret(cond, r) ==
    /\ scans' = Append(scans, [ctx |-> r.s, returned |-> << >>, ends |-> 0,
                               capped |-> FALSE, mod |-> FALSE,
                               due |-> Matching(cond),
                               solo |-> Solo(cond)])
    /\ RMObserve("startScan", << [scan |-> Len(scans) + 1] >>, r.rc)
    /\ UNCHANGED <<disk, g_ctx, rel, out, gh>>

StartScan(cond) ==
    /\ Alive /\ TableOpen
    /\ Len(scans) < MaxScans
    /\ StartScan_ret(cond, startScan(g_ctx, cond))

\* mutant: the cursor is kept in the table's context, shared by its scans
ScanNext_shared(i, r) ==
    /\ g_ctx' = r.t /\ disk' = r.disk /\ out' = r.out
    /\ scans' = [[j \in 1 .. Len(scans) |->
                    [scans[j] EXCEPT !.ctx.cursor = r.s.cursor]] EXCEPT ![i] =
                   [ctx      |-> r.s,
                    returned |-> IF r.rc = RC_OK
                                 THEN Append(scans[i].returned, r.out.id)
                                 ELSE scans[i].returned,
                    ends     |-> IF r.rc = RC_RM_NO_MORE_TUPLES
                                 THEN scans[i].ends + 1 ELSE scans[i].ends,
                    capped   |-> r.capped,
                    mod      |-> scans[i].mod,
                    due      |-> scans[i].due,
                    solo     |-> scans[i].solo]]
    /\ RMObserve("next", << [scan |-> i] >>, r.rc)
    /\ UNCHANGED <<rel, gh>>

ScanNext_ret(i, r) ==
    /\ g_ctx' = r.t /\ disk' = r.disk /\ out' = r.out
    /\ scans' = [scans EXCEPT ![i] =
                   [ctx      |-> r.s,
                    returned |-> IF r.rc = RC_OK
                                 THEN Append(scans[i].returned, r.out.id)
                                 ELSE scans[i].returned,
                    ends     |-> IF r.rc = RC_RM_NO_MORE_TUPLES
                                 THEN scans[i].ends + 1 ELSE scans[i].ends,
                    capped   |-> r.capped,
                    mod      |-> scans[i].mod,
                    due      |-> scans[i].due,
                    solo     |-> scans[i].solo]]
    /\ RMObserve("next", << [scan |-> i] >>, r.rc)
    /\ UNCHANGED <<rel, gh>>

\* the client stops calling next after MaxEnds answers RC_RM_NO_MORE_TUPLES
ScanNext(i, fq) ==
    /\ Alive /\ TableOpen
    /\ i \in 1 .. Len(scans)
    /\ scans[i].ends < MaxEnds
    /\ ScanNext_ret(i, next(scans[i].ctx, g_ctx, disk, rel.schema, out, fq))

RMOpen          == OpenTable(NoFault, NoFault)
RMClose         == CloseTable(NoFaults)
RMInsert(v)     == InsertRecord(v, << >>)
RMDelete(id)    == DeleteRecord(id, << >>)
RMUpdate(id, v) == UpdateRecord(id, v, << >>)
RMGet(id)       == GetRecord(id, << >>)
RMNext(i)       == ScanNext(i, << >>)

NextRM ==
    \/ RMOpen
    \/ RMClose
    \/ \E v \in RecVals : RMInsert(v)
    \/ \E id \in RIDs : RMDelete(id)
    \/ \E id \in RIDs, v \in RecVals : RMUpdate(id, v)
    \/ \E id \in RIDs : RMGet(id)

SpecRM == InitRM /\ [][NextRM]_vars

\* a client that also passes rids on page 0 to deleteRecord and updateRecord;
\* the stack bytes behind the header of page 0 are any tombstones
AnyRIDs  == [page : 0 .. MaxHeapPage, slot : 0 .. MaxSlots - 1]
Junk(schema) ==
    [1 .. PAGE_SIZE \div getRecordSize(schema) - 1 ->
        {<<RM_FREE, 0>>, <<RM_OCCUPIED, 0>>}]
InitAnyRid ==
    /\ \E sch \in Schemas : \E junk \in Junk(sch) :
          /\ g_ctx = createTable_on(sch, junk, NoFault).ctx
          /\ disk  = createTable_on(sch, junk, NoFault).disk
    /\ rel = NoRel /\ scans = << >> /\ out = NoRecord /\ gh = NoHistory
    /\ bm = [numPages |-> 0, strategy |-> RS_LRU, mgmtData |-> FALSE]
    /\ st = [frames |-> << >>, used |-> 0, capacity |-> 0,
             reads |-> 0, writes |-> 0, tick |-> 0]
    /\ insertTick = << >>
    /\ op = "createTable" /\ rc = RC_OK /\ arg = << >>
    /\ path = "none" /\ victim = 0 /\ wrc = NOT_CALLED /\ rd = NOT_CALLED
    /\ fHandle = NoHandle /\ tables = NoTables

NextAnyRid ==
    \/ RMOpen
    \/ \E v \in RecVals : RMInsert(v)
    \/ \E id \in AnyRIDs : RMDelete(id)
    \/ \E id \in AnyRIDs, v \in RecVals : RMUpdate(id, v)

SpecAnyRid == InitAnyRid /\ [][NextAnyRid]_vars

\* a client that inserts into and deletes from a table while it runs one scan
\* over it
OneScan == Len(scans) < 1
NextScan ==
    \/ RMOpen
    \/ \E v \in RecVals : RMInsert(v)
    \/ \E id \in RIDs : RMDelete(id)
    \/ \E cond \in Conds : OneScan /\ StartScan(cond)
    \/ RMNext(1)

SpecScan == InitRM /\ [][NextScan]_vars

\* the same client, which goes on calling next on its scan: weak fairness of
\* RMNext(1), written with the guard of ScanNext for ENABLED and with the
\* call's record in op and arg for the step
CanNext  == Alive /\ TableOpen /\ Len(scans) >= 1 /\ scans[1].ends < MaxEnds
DidNext  == op' = "next" /\ arg'[1].scan = 1
SpecScanFair == SpecScan /\ ([]<>(~CanNext) \/ []<><<DidNext>>_vars)

\* a client that fills a table and then runs scans over it, interleaving
\* their next calls and leaving the table alone
Quiet == scans = << >>
NextTwoScans ==
    \/ Quiet /\ RMOpen
    \/ \E v \in RecVals : Quiet /\ RMInsert(v)
    \/ \E id \in RIDs : Quiet /\ RMDelete(id)
    \/ \E cond \in Conds : StartScan(cond)
    \/ \E i \in 1 .. MaxScans : RMNext(i)

SpecTwoScans == InitRM /\ [][NextTwoScans]_vars

\* a client whose record calls meet failing library calls: openPageFile or
\* the growth of the file in ensureCapacity fails under the n-th pinPage of a
\* call (every failing pinPage ends the call, so one failure per call is all
\* a call can meet), and the write of forcePage fails in openTable. The
\* payload is always 1; the client starts its scan with two of its calls
\* unused and leaves the table alone from then on.
RMFaults  == {<<"open", 0>>, <<"extend", 0>>}
PinFaults ==
    {<< >>} \cup {[i \in 1 .. n |-> IF i = n THEN f ELSE NoFault] :
                    n \in 1 .. MaxPins, f \in RMFaults}
Early == gh.ops <= MaxOps - 2
NextRMFault ==
    \/ \E fr \in RMFaults \cup {NoFault}, fw \in RMFaults \cup {NoFault} :
          Quiet /\ OpenTable(fr, fw)
    \/ \E fq \in PinFaults : Quiet /\ InsertRecord(1, fq)
    \/ \E id \in RIDs, fq \in PinFaults : Quiet /\ DeleteRecord(id, fq)
    \/ \E id \in RIDs, fq \in PinFaults : Quiet /\ UpdateRecord(id, 1, fq)
    \/ \E id \in RIDs, fq \in PinFaults : Quiet /\ GetRecord(id, fq)
    \/ \E cond \in {"all", "attr"} : OneScan /\ Early /\ StartScan(cond)
    \/ \E fq \in PinFaults : ScanNext(1, fq)

SpecRMFault == InitRM /\ [][NextRMFault]_vars

\* ------------------------------------------------------------- shorthands
Live      == bm.mgmtData
Frames    == 1 .. Len(st.frames)
Pinned(i) == st.frames[i].pinCount > 0
Resident(p) == \E i \in Frames : st.frames[i].pageNum = p

TypeOK ==
    /\ bm.mgmtData \in BOOLEAN
    /\ Len(insertTick) = Len(st.frames)
    /\ st.reads \in Nat /\ st.writes \in Nat /\ st.tick \in Nat

\* ------------------- the storage manager on its own --------------------

MaxFilePages == 4

\* faults of the C library under one appendEmptyBlock / ensureCapacity call
SMFaults == {NoFault, <<"xfer", 0>>}
               \cup {<<"extend", k>> : k \in 0 .. MaxFilePages - 2}

\* the state after createPageFile(f) and openPageFile(f, &fHandle)
InitSM ==
    /\ disk = createPageFile
    /\ fHandle = openPageFile(createPageFile, NoFault).fh
    /\ op = "openPageFile" /\ rc = openPageFile(createPageFile, NoFault).rc
    /\ arg = << >>
    /\ bm = [numPages |-> 0, strategy |-> RS_LRU, mgmtData |-> FALSE]
    /\ st = [frames |-> << >>, used |-> 0, capacity |-> 0,
             reads |-> 0, writes |-> 0, tick |-> 0]
    /\ insertTick = << >>
    /\ path = "none" /\ victim = 0 /\ wrc = NOT_CALLED /\ rd = NOT_CALLED
    /\ g_ctx = NullCtx /\ rel = NoRel /\ scans = << >> /\ out = NoRecord
    /\ gh = NoHistory /\ tables = NoTables

\* the effect of a storage call on the file and the handle: r is its result
SMEffect(name, a, r) ==
    /\ disk' = r.disk /\ fHandle' = r.fh
    /\ op' = name /\ arg' = a /\ rc' = r.rc
    /\ UNCHANGED <<poolvars, rmvars, tables>>

SMAppend(f) ==
    /\ Len(disk) < MaxFilePages
    /\ SMEffect("appendEmptyBlock", << >>, appendEmptyBlock(fHandle, disk, f))

SMEnsure(n, f) ==
    /\ Len(disk) + n <= MaxFilePages + fHandle.totalNumPages
    /\ SMEffect("ensureCapacity", << n >>, ensureCapacity(n, fHandle, disk, f))

SMWrite(pn, v) ==
    SMEffect("writeBlock", << pn >>, writeBlock(pn, fHandle, disk, UserPage(v), NoFault))

NextSM ==
    \/ \E f \in SMFaults : SMAppend(f)
    \/ \E n \in 0 .. MaxFilePages, f \in SMFaults : SMEnsure(n, f)
    \/ \E pn \in 0 .. MaxFilePages - 1, v \in Vals : SMWrite(pn, v)

SpecSM == InitSM /\ [][NextSM]_vars

\* --------------------- two tables in one process ------------------------
\* The RMContexts createTable has allocated are tables.ctx (c: the context,
\* file: the page file its pool was initialised on); tables.g is the one the
\* global g_ctx points to. Table n lives in the file tables.files[n]; the
\* client holds one RM_TableData per table, tables.rels[n], whose mgmtData is
\* the index of the context openTable stored in it.

TableNames == 1 .. 2

T2Running == tables.ops < MaxOps
T2Ctx(h)  == tables.ctx[tables.rels[h].mgmtData]
T2File(i) == tables.files[tables.ctx[i].file]
T2Valid(h, id) ==
    id.slot < PAGE_SIZE \div getRecordSize(tables.rels[h].schema)

T2Observe(name, h, r) ==
    /\ op' = name /\ arg' = << [handle |-> h] >> /\ rc' = r
    /\ UNCHANGED <<disk, poolvars, rmvars, fHandle>>

\* a record call through handle h on the context i it is bound to
T2Effect(name, h, i, r) ==
    /\ tables' = [tables EXCEPT !.ctx[i].c = r.ctx,
                                !.files[tables.ctx[i].file] = r.disk,
                                !.ops = @ + 1]
    /\ T2Observe(name, h, r.rc)

CreateTable2_ret(n, r) ==
    /\ tables' = [tables EXCEPT !.ctx = Append(@, [c |-> r.ctx, file |-> n]),
                                !.g = Len(tables.ctx) + 1,
                                !.files[n] = r.disk,
                                !.ops = @ + 1]
    /\ T2Observe("createTable", n, r.rc)

\* createTable(n, sch): g_ctx is overwritten with the new context
CreateTable2(n, sch) ==
    /\ T2Running /\ tables.files[n] = << >>
    /\ CreateTable2_ret(n, createTable(sch, NoFault))

OpenTable2_ret(h, g, r) ==
    /\ tables' = [tables EXCEPT !.ctx[g].c = r.ctx,
                                !.files[tables.ctx[g].file] = r.disk,
                                !.rels[h] = [mgmtData |-> IF r.bound THEN g ELSE 0,
                                             loaded   |-> r.loaded,
                                             schema   |-> r.schema],
                                !.ops = @ + 1]
    /\ T2Observe("openTable", h, r.rc)

\* openTable(&rels[h], h): the name is only copied into the handle
OpenTable2(h) ==
    /\ T2Running /\ tables.g # 0
    /\ tables.files[h] # << >> /\ tables.rels[h].mgmtData = 0
    /\ OpenTable2_ret(h, tables.g,
          openTable(tables.ctx[tables.g].c, T2File(tables.g), NoFault, NoFault))

Insert2(h, v) ==
    /\ T2Running /\ tables.rels[h].loaded
    /\ T2Effect("insertRecord", h, tables.rels[h].mgmtData,
          insertRecord(T2Ctx(h).c, T2File(tables.rels[h].mgmtData),
                       tables.rels[h].schema, v, << >>))

Delete2(h, id) ==
    /\ T2Running /\ tables.rels[h].loaded /\ T2Valid(h, id)
    /\ T2Effect("deleteRecord", h, tables.rels[h].mgmtData,
          deleteRecord(T2Ctx(h).c, T2File(tables.rels[h].mgmtData),
                       tables.rels[h].schema, id, << >>))

Update2(h, id, v) ==
    /\ T2Running /\ tables.rels[h].loaded /\ T2Valid(h, id)
    /\ T2Effect("updateRecord", h, tables.rels[h].mgmtData,
          updateRecord(T2Ctx(h).c, T2File(tables.rels[h].mgmtData),
                       tables.rels[h].schema, id, v, << >>))

\* the process before its first createTable
InitTwoTables ==
    /\ tables = NoTables
    /\ disk = << >> /\ fHandle = NoHandle
    /\ op = "initRecordManager" /\ rc = RC_OK /\ arg = << >>
    /\ bm = [numPages |-> 0, strategy |-> RS_LRU, mgmtData |-> FALSE]
    /\ st = [frames |-> << >>, used |-> 0, capacity |-> 0,
             reads |-> 0, writes |-> 0, tick |-> 0]
    /\ insertTick = << >>
    /\ path = "none" /\ victim = 0 /\ wrc = NOT_CALLED /\ rd = NOT_CALLED
    /\ g_ctx = NullCtx /\ rel = NoRel /\ scans = << >> /\ out = NoRecord
    /\ gh = NoHistory

NextTwoTables ==
    \/ \E n \in TableNames, sch \in Schemas : CreateTable2(n, sch)
    \/ \E h \in TableNames : OpenTable2(h)
    \/ \E h \in TableNames, v \in RecVals : Insert2(h, v)
    \/ \E h \in TableNames, id \in RIDs : Delete2(h, id)
    \/ \E h \in TableNames, id \in RIDs, v \in RecVals : Update2(h, id, v)

SpecTwoTables == InitTwoTables /\ [][NextTwoTables]_vars

\* ================================ claims =================================

AllPinned == \A i \in Frames : Pinned(i)
Full      == st.used >= st.capacity
Coherent(f, d) ==
    f.pageNum >= 0 /\ f.pageNum < Len(d) /\ d[f.pageNum + 1] = f.data

\* C1: a frame with pinCount > 0 is never the replacement victim: a pinPage
\* call leaves the pageNum and the buffer of every pinned frame as they were.
C1_PinnedFrameImmovable ==
    [][ (Live /\ op' = "pinPage") =>
          \A i \in Frames :
             Pinned(i) =>
                /\ victim' # i
                /\ Len(st'.frames) >= i
                /\ st'.frames[i].pageNum = st.frames[i].pageNum
                /\ st'.frames[i].data = st.frames[i].data ]_vars

\* a replacement that had to pass over the pinned head of the list
C1_Witness ==
    /\ Live /\ op = "pinPage" /\ rc = RC_OK /\ path = "replace"
    /\ victim = 2
    /\ st.frames[1].pinCount > 0

\* C2: the resident frames never outnumber the capacity given at init (so
\* neither do the pinned ones) and no two resident frames hold the same page.
C2_CapacityAndUniquePages ==
    Live =>
       /\ Len(st.frames) <= st.capacity
       /\ st.used = Len(st.frames)
       /\ st.capacity = bm.numPages
       /\ Cardinality({i \in Frames : Pinned(i)}) <= st.capacity
       /\ \A i, j \in Frames : i # j => st.frames[i].pageNum # st.frames[j].pageNum

\* a pin of a page that is already resident, on a full pool
C2_Witness ==
    /\ Live /\ op = "pinPage" /\ rc = RC_OK /\ path = "hit"
    /\ Len(st.frames) = st.capacity

\* C3: in an LRU pool the victim of every replacement is the unpinned frame
\* with the smallest lastTouch.
C3_LRUVictim ==
    [][ (bm.strategy = RS_LRU /\ op' = "pinPage" /\ victim' # 0) =>
          \A j \in Frames :
             st.frames[j].pinCount = 0 =>
                st.frames[victim'].lastTouch <= st.frames[j].lastTouch ]_vars

\* C4: in a FIFO pool the victim of every replacement is the unpinned frame
\* whose resident page was read in earliest (smallest insert tick).
C4_FIFOVictim ==
    [][ (bm.strategy = RS_FIFO /\ op' = "pinPage" /\ victim' # 0) =>
          \A j \in Frames :
             st.frames[j].pinCount = 0 =>
                insertTick[victim'] <= insertTick[j] ]_vars

\* C5: pinPage of a non-resident page on a full pool whose frames are all
\* pinned returns RC_PINNED_PAGES_IN_BUFFER, in every such state.
C5_AllPinnedFails ==
    [][ ( /\ Live /\ op' = "pinPage"
          /\ ~Resident(arg'[1]) /\ Full /\ AllPinned ) =>
              rc' = RC_PINNED_PAGES_IN_BUFFER ]_vars

\* such a pin has happened: one page more than the capacity, none unpinned
C5_Witness ==
    /\ Live /\ op = "pinPage" /\ rc = RC_PINNED_PAGES_IN_BUFFER
    /\ ~Resident(arg[1]) /\ Full /\ AllPinned

\* C6: a dirty victim is written under its old pageNum before the frame is
\* reused and writes grows by one; when that write fails pinPage returns the
\* error and the victim keeps its page and its buffer.
C6_DirtyVictimWrittenOrKept ==
    [][ (Live /\ op' = "pinPage" /\ victim' # 0 /\ st.frames[victim'].isDirty) =>
          LET v == st.frames[victim'] IN
          IF wrc' = RC_OK
          THEN /\ v.pageNum < Len(disk')
               /\ disk'[v.pageNum + 1] = v.data
               /\ st'.writes = st.writes + 1
          ELSE /\ rc' = wrc'
               /\ st'.frames[victim'].pageNum = v.pageNum
               /\ st'.frames[victim'].data = v.data ]_vars

\* C7: clients mark every mutation dirty, and every resident clean frame
\* holds the on-disk image of its page.
C7_CleanFramesCoherent ==
    Live => \A i \in Frames : ~st.frames[i].isDirty => Coherent(st.frames[i], disk)

\* C8: reads and writes never decrease, and a pinPage call adds one to reads
\* exactly when its page read succeeded and one to writes exactly when its
\* victim write succeeded.
C8_CountersFollowTransfers ==
    [][ (Live /\ bm'.mgmtData) =>
          /\ getNumReadIO(bm', st') >= getNumReadIO(bm, st)
          /\ getNumWriteIO(bm', st') >= getNumWriteIO(bm, st)
          /\ op' = "pinPage" =>
                /\ getNumReadIO(bm', st') =
                      getNumReadIO(bm, st) + (IF rd' = RC_OK THEN 1 ELSE 0)
                /\ getNumWriteIO(bm', st') =
                      getNumWriteIO(bm, st) + (IF wrc' = RC_OK THEN 1 ELSE 0) ]_vars

\* C9: after a successful forceFlushPool every unpinned frame is clean and
\* equal to its disk image; a pinned dirty frame is skipped and stays dirty.
C9_FlushLeavesUnpinnedClean ==
    [][ (Live /\ op' = "forceFlushPool" /\ rc' = RC_OK) =>
          /\ Len(st'.frames) = Len(st.frames)
          /\ st'.writes = st.writes + Cardinality(
                {i \in Frames : st.frames[i].isDirty /\ st.frames[i].pinCount = 0})
          /\ \A i \in Frames :
                IF st.frames[i].pinCount = 0
                THEN /\ ~st'.frames[i].isDirty
                     /\ Coherent(st'.frames[i], disk')
                ELSE st'.frames[i] = st.frames[i] ]_vars

\* C10: shutdownBufferPool with a pinned frame returns
\* RC_PINNED_PAGES_IN_BUFFER and keeps the pool with every frame's pageNum,
\* pinCount and buffer; with no pinned frame it returns RC_OK.
C10_ShutdownKeepsPinnedPool ==
    [][ (Live /\ op' = "shutdownBufferPool") =>
          IF \E i \in Frames : Pinned(i)
          THEN /\ rc' = RC_PINNED_PAGES_IN_BUFFER
               /\ bm'.mgmtData
               /\ Len(st'.frames) = Len(st.frames)
               /\ \A i \in Frames :
                     /\ st'.frames[i].pageNum  = st.frames[i].pageNum
                     /\ st'.frames[i].pinCount = st.frames[i].pinCount
                     /\ st'.frames[i].data     = st.frames[i].data
          ELSE rc' = RC_OK /\ ~bm'.mgmtData ]_vars

\* a refused shutdown: the pool is still there with its pinned frame
C10_Witness ==
    /\ Live /\ op = "shutdownBufferPool" /\ rc = RC_PINNED_PAGES_IN_BUFFER
    /\ \E i \in Frames : Pinned(i)

\* C11: when readBlock fails on a page that was in the file before the call,
\* pinPage returns that error and the page is not resident afterwards; a page
\* that the call itself appended to the file is handed out all zero.
C11_ReadFailureSurfaces ==
    [][ (Live /\ op' = "pinPage" /\ path' # "hit") =>
          /\ (arg'[1] < Len(disk) /\ rd' \notin {RC_OK, NOT_CALLED}) =>
                /\ rc' = rd'
                /\ \A i \in 1 .. Len(st'.frames) : st'.frames[i].pageNum # arg'[1]
          /\ (arg'[1] >= Len(disk) /\ rc' = RC_OK /\ rd' = RC_OK) =>
                st'.frames[fr_find(st', arg'[1])].data = ZeroPage ]_vars

\* the frames of the table's pool
TableFrames == 1 .. Len(g_ctx.st.frames)
NoPagePinned(c) == \A i \in 1 .. Len(c.st.frames) : c.st.frames[i].pinCount = 0
\* the pool has replaced a page: more pages were read in than it has frames
Evicted == g_ctx.st.reads > g_ctx.st.capacity

C13_DeletedIsGone ==
    [][ (op' = "getRecord" /\ arg'[1] \in gh.dead) =>
          /\ rc' = RC_RM_NO_TUPLE_WITH_GIVEN_RID
          /\ NoPagePinned(g_ctx') ]_vars

\* a deleted record was asked for, after the pool had replaced pages
C13_Witness ==
    /\ op = "getRecord" /\ rc = RC_RM_NO_TUPLE_WITH_GIVEN_RID
    /\ arg[1] \in gh.dead
    /\ gh.n >= 1 /\ gh.k >= 1
    /\ Evicted

\* C14: after n successful inserts and k successful deletes of occupied
\* slots (and no delete or update of a free slot) getNumTuples is n - k.
C14_TupleCountIsNetInserts ==
    (TableOpen /\ gh.plain) => getNumTuples(g_ctx) = gh.n - gh.k

\* two records inserted and one of them deleted
C14_Witness ==
    /\ TableOpen /\ gh.plain /\ op = "deleteRecord" /\ rc = RC_OK
    /\ gh.n = 2 /\ gh.k = 1 /\ getNumTuples(g_ctx) = 1

\* C20: lifecycle round trip. An openTable that follows a closeTable
\* succeeds and reports the tupleCount and firstFreePage the table had when it
\* was closed.
C20_ReopenRestoresTable ==
    [][ (op = "closeTable" /\ rc = RC_OK /\ op' = "openTable") =>
          /\ rc' = RC_OK
          /\ g_ctx'.tupleCount = g_ctx.tupleCount
          /\ g_ctx'.firstFreePage = g_ctx.firstFreePage ]_vars

RidLess(a, b) == a.page < b.page \/ (a.page = b.page /\ a.slot < b.slot)

\* C15: a record that next returns is, when next is called, in an occupied
\* slot of the table, it is that slot's content, the scan's predicate
\* evaluates to boolean TRUE on it, and its rid is above, in (page, slot)
\* order, every rid the scan returned before (so none is returned twice).
C15_ScanReturnsLiveMatchesAscending ==
    [][ (op' = "next" /\ rc' = RC_OK) =>
          LET i == arg'[1].scan IN
          /\ Occupied(out'.id)
          /\ out'.data = SlotAt(out'.id)
          /\ evalExpr(out'.data, scans[i].ctx.pred).dt = DT_BOOL
          /\ evalExpr(out'.data, scans[i].ctx.pred).boolV
          /\ \A j \in 1 .. Len(scans[i].returned) :
                RidLess(scans[i].returned[j], out'.id) ]_vars

\* a scan with a predicate, over a table that was modified since startScan,
\* has returned its second record
C15_Witness ==
    /\ op = "next" /\ rc = RC_OK
    /\ Len(scans[arg[1].scan].returned) >= 2
    /\ scans[arg[1].scan].mod
    /\ scans[arg[1].scan].ctx.pred = "eq1"

\* C16: a scan that runs to RC_RM_NO_MORE_TUPLES over a table that is not
\* modified after startScan has returned every rid whose slot was occupied
\* with a record that makes the predicate true, and only those.
C16_ScanReturnsEveryMatch ==
    \A i \in 1 .. Len(scans) :
        (scans[i].ends > 0 /\ ~scans[i].mod) =>
            {scans[i].returned[j] : j \in 1 .. Len(scans[i].returned)} = scans[i].due

\* C17: a call of next returns an answer; once the cursor has passed page
\* firstFreePage + 1 of the scan's snapshot the answer is
\* RC_RM_NO_MORE_TUPLES, and so is every answer after the first such one; an
\* RC_OK moves the cursor strictly forward within pages 1 .. firstFreePage + 1;
\* the loop never stops because safetyCap ran out; and a client that goes on
\* calling next on a scan is told RC_RM_NO_MORE_TUPLES.
C17_ScanEnds ==
    /\ [][ op' = "next" =>
             LET i  == arg'[1].scan
                 s  == scans[i].ctx
                 s2 == scans'[i].ctx
             IN  /\ rc' \in {RC_OK, RC_RM_NO_MORE_TUPLES}
                 /\ ~scans'[i].capped
                 /\ s2.cursor.page > s.firstFreePage + 1 => rc' = RC_RM_NO_MORE_TUPLES
                 /\ scans[i].ends > 0 => rc' = RC_RM_NO_MORE_TUPLES
                 /\ rc' = RC_OK => /\ RidLess(s.cursor, s2.cursor)
                                   /\ s2.cursor.page <= s.firstFreePage + 1 ]_vars
    /\ (Len(scans) >= 1) ~> (Len(scans) >= 1 /\ scans[1].ends > 0)

\* a scan that returned records was told RC_RM_NO_MORE_TUPLES twice, with
\* its cursor past page firstFreePage + 1
C17_Witness ==
    /\ op = "next" /\ rc = RC_RM_NO_MORE_TUPLES /\ arg[1].scan = 1
    /\ scans[1].ends = 2
    /\ Len(scans[1].returned) >= 2
    /\ scans[1].ctx.cursor.page > scans[1].ctx.firstFreePage + 1

IsPrefix(a, b) == Len(a) <= Len(b) /\ \A j \in 1 .. Len(a) : a[j] = b[j]

\* C18: with scans open on a table that is not modified, a next on one scan
\* leaves every other scan's cursor, predicate and snapshot as they were and
\* leaves no page pinned, and the records the scan has returned are those it
\* returns when it runs alone: a prefix of that sequence, and all of it once
\* next has answered RC_RM_NO_MORE_TUPLES.
C18_ScansIndependent ==
    [][ op' = "next" =>
          LET i == arg'[1].scan IN
          /\ \A j \in 1 .. Len(scans) : j # i => scans'[j] = scans[j]
          /\ NoPagePinned(g_ctx')
          /\ IsPrefix(scans'[i].returned, scans[i].solo)
          /\ scans'[i].ends > 0 => scans'[i].returned = scans[i].solo ]_vars

\* two scans with different predicates, interleaved, have both returned
\* records and ended
C18_Witness ==
    /\ Len(scans) = 2
    /\ scans[1].ctx.pred # scans[2].ctx.pred
    /\ scans[1].ends > 0 /\ scans[2].ends > 0
    /\ Len(scans[1].returned) >= 2 /\ Len(scans[2].returned) >= 1
    /\ scans[1].returned # scans[2].returned
    /\ Evicted

\* C19: after a record call has returned, with RC_OK or with an error, no
\* frame of the table's pool has a pin count above 0.
C19_NoPinLeft == (Alive /\ g_ctx.alloc) => NoPagePinned(g_ctx)

\* insertRecord stored its record and then failed to pin page 0
C19_Witness ==
    /\ op = "insertRecord" /\ rc \notin {RC_OK, SIGSEGV}
    /\ arg[1].slot >= 0 /\ Occupied(arg[1])
    /\ g_ctx.tupleCount = gh.n + 1
    /\ Len(g_ctx.st.frames) = g_ctx.st.capacity

\* C28: a pinPage that returns an error leaves the pool as it was: every
\* frame keeps its pageNum, data, isDirty and pinCount, and tick, reads and
\* writes keep their values.
C28_FailedPinLeavesPool ==
    [][ (Live /\ op' = "pinPage" /\ rc' # RC_OK) => st' = st ]_vars

\* C24: a frame reused by a replacement has pinCount 1, refCount 1, lastTouch
\* equal to the new tick and isDirty FALSE, whatever the victim's flag was.
C24_ReplacedFrameIsClean ==
    [][ (Live /\ op' = "pinPage" /\ rc' = RC_OK /\ path' = "replace") =>
          /\ st'.frames[victim'].pageNum = arg'[1]
          /\ st'.frames[victim'].pinCount = 1
          /\ st'.frames[victim'].refCount = 1
          /\ st'.frames[victim'].lastTouch = st'.tick
          /\ ~st'.frames[victim'].isDirty ]_vars

Max(a, b) == IF a > b THEN a ELSE b
PageFull(pn) == \A sl \in 0 .. SlotsPerPage - 1 : Occupied([page |-> pn, slot |-> sl])

\* C25: a successful insertRecord puts the record into a slot that was free,
\* the lowest free slot of the first page at or after firstFreePage that has
\* one, so the rid is that of no occupied slot; afterwards the slot holds the
\* payload and firstFreePage is the larger of its old value and rid.page.
C25_InsertTakesFirstFreeSlot ==
    [][ (op' = "insertRecord" /\ rc' = RC_OK) =>
          /\ arg'[1] \in HeapRIDs
          /\ \A id \in HeapRIDs : id = arg'[1] =>
                /\ id.page >= g_ctx.firstFreePage
                /\ id.slot \in 0 .. SlotsPerPage - 1
                /\ ~Occupied(id)
                /\ \A sl \in 0 .. id.slot - 1 : Occupied([page |-> id.page, slot |-> sl])
                /\ \A pn \in g_ctx.firstFreePage .. id.page - 1 : PageFull(pn)
                /\ Occupied(id)' /\ SlotAt(id)'[2] = arg'[2]
                /\ g_ctx'.firstFreePage = Max(g_ctx.firstFreePage, id.page) ]_vars

\* the third insert into a table of two slots per page found page 1 full and
\* went on to slot 0 of page 2
C25_Witness ==
    /\ op = "insertRecord" /\ rc = RC_OK
    /\ SlotsPerPage = 2 /\ gh.n = 3 /\ gh.k = 0
    /\ arg[1] = [page |-> 2, slot |-> 0]
    /\ PageFull(1)
    /\ g_ctx.firstFreePage = 2

\* C26: whatever rids deleteRecord and updateRecord are given, tupleCount is
\* the number of heap slots with an occupied tombstone, and it is not
\* negative.
C26_TupleCountIsOccupiedSlots ==
    TableOpen =>
        /\ g_ctx.tupleCount >= 0
        /\ g_ctx.tupleCount =
              Cardinality({id \in HeapRIDs : ValidRID(id) /\ Occupied(id)})

\* the header of page 0 as the pool hands it out
Header == rm_meta(View(0))

\* C27: firstFreePage is at least 1, and no insertRecord, deleteRecord or
\* updateRecord, whatever rid it is given, changes the attribute entries of
\* page 0 or puts a tombstone or a payload into that page.
C27_PageZeroIsMetadata ==
    /\ g_ctx.alloc => g_ctx.firstFreePage >= 1
    /\ TableOpen =>
          /\ Header.schema = rel.schema
          /\ Header.tupleCount = g_ctx.tupleCount
          /\ Header.firstFreePage = g_ctx.firstFreePage

\* C21: two tables created and opened in one process have separate state: a
\* successful openTable binds the handle to the pool of the table it names,
\* and an insert, delete or update through one handle leaves the context
\* (counters and pool) and the file of the other open table as they were.
C21_TablesAreSeparate ==
    [][ /\ (op' = "openTable" /\ rc' = RC_OK) =>
             \A h \in TableNames :
                arg'[1].handle = h =>
                   tables'.ctx[tables'.rels[h].mgmtData].file = h
        /\ op' \in {"insertRecord", "deleteRecord", "updateRecord"} =>
             \A h, o \in TableNames :
                (arg'[1].handle = h /\ o # h /\ tables.rels[o].loaded) =>
                   /\ tables'.ctx[tables.rels[o].mgmtData].c = T2Ctx(o).c
                   /\ tables'.files[o] = tables.files[o] ]_vars

\* C22: the file is exactly total_pages pages long after any sequence of
\* appendEmptyBlock and ensureCapacity calls on the handle.
C22_FileSizeIsTotalPages ==
    file_size_bytes(disk) = fHandle.totalNumPages * PAGE_SIZE

\* C23: ensureCapacity(n) with totalNumPages >= n changes neither the handle
\* nor the file, and a failed ensureCapacity leaves totalNumPages and
\* curPagePos as they were before the call.
C23_EnsureCapacityKeepsHandle ==
    [][ op' = "ensureCapacity" =>
          /\ fHandle.totalNumPages >= arg'[1] =>
                rc' = RC_OK /\ fHandle' = fHandle /\ disk' = disk
          /\ rc' # RC_OK =>
                /\ fHandle'.totalNumPages = fHandle.totalNumPages
                /\ fHandle'.curPagePos = fHandle.curPagePos ]_vars

\* an extension that failed after it had written a page
C23_Witness ==
    /\ op = "ensureCapacity" /\ rc = RC_WRITE_FAILED
    /\ arg[1] > fHandle.totalNumPages + 1
    /\ Len(disk) > fHandle.totalNumPages

====
